---- MODULE Spec2Model ----
(***************************************************************************)
(* Helpdesk query-resolution pipeline (franaragm/ia-helpdesk).             *)
(*                                                                         *)
(* The model covers the LangGraph state machine of app/graph.py, the RAG   *)
(* front end of app/rag.py that feeds it, and the Streamlit handlers of    *)
(* app/ui.py that create tickets and resume them after a human answer.     *)
(*                                                                         *)
(* Conventions                                                             *)
(*  - Python str is a TLA+ string; Optional[str] uses the sentinel None.   *)
(*  - Python dict is a function whose DOMAIN is the set of keys present.   *)
(*  - Python float confidences and distances are integers in thousandths   *)
(*    (0.6 is 600); divisions truncate.                                    *)
(*  - Non-ASCII letters of the Spanish literals are transliterated.        *)
(***************************************************************************)
EXTENDS Integers, Sequences, FiniteSets, TLC

VARIABLES
    checkpoints,   \* SqliteSaver("helpdesk.db"): thread_id -> checkpoint
    tickets,       \* st.session_state.tickets: ticket_id -> ticket entry
    op,            \* the handler of the current script run and its locals
    next_id,       \* number of identifiers handed out by generate_uuid
    ran,           \* thread_id -> node -> number of executions (observer)
    call           \* a single function call under test: arguments and result

session == <<checkpoints, tickets, op, next_id, ran>>

vars == <<checkpoints, tickets, op, next_id, ran, call>>

-----------------------------------------------------------------------------
(* Bounds *)

MaxTickets == 2

\* tickets created in the runs that include restarts of the process
MaxRestartTickets == 1

\* tickets created in the runs with a second, concurrent caller
MaxSharedTickets == 1

\* tickets created in the runs where a resume raises
MaxFailingTickets == 1

\* tickets created in the runs over well-supported answers
MaxSupportedTickets == 2

-----------------------------------------------------------------------------
(* Python values *)

None == "<None>"

\* Python truthiness of an Optional[str]
Truthy(s) == s /= None /\ s /= ""

\* dict.get(key, default)
Get(d, key, default) == IF key \in DOMAIN d THEN d[key] ELSE default

\* Python's `or` between an optional list and a default
OrElse(x, default) == IF x = None \/ x = <<>> THEN default ELSE x

-----------------------------------------------------------------------------
(* Python str operations *)

IsSpace(c) == c \in {" ", "\n", "\t"}

\* the cased characters of the texts handled here
LowerTable ==
    [ A |-> "a", B |-> "b", C |-> "c", D |-> "d", E |-> "e", F |-> "f",
      G |-> "g", H |-> "h", I |-> "i", J |-> "j", K |-> "k", L |-> "l",
      M |-> "m", N |-> "n", O |-> "o", P |-> "p", Q |-> "q", R |-> "r",
      S |-> "s", T |-> "t", U |-> "u", V |-> "v", W |-> "w", X |-> "x",
      Y |-> "y", Z |-> "z" ]

\* c is a string of one character
LowerChar(c) == IF c \in DOMAIN LowerTable THEN LowerTable[c] ELSE c

\* str.lower(), character by character
RECURSIVE Lower(_)
Lower(s) ==
    IF s = "" THEN ""
    ELSE IF Len(s) = 1 THEN LowerChar(s)
    ELSE LET h == Len(s) \div 2 IN
         Lower(SubSeq(s, 1, h)) \o Lower(SubSeq(s, h + 1, Len(s)))

\* `sub in s`
Contains(s, sub) ==
    \E i \in 1..(Len(s) - Len(sub) + 1) : SubSeq(s, i, i + Len(sub) - 1) = sub

RECURSIVE LStrip(_)
LStrip(s) ==
    IF s = "" THEN ""
    ELSE IF IsSpace(Head(s)) THEN LStrip(Tail(s)) ELSE s

RECURSIVE RStrip(_)
RStrip(s) ==
    IF s = "" THEN ""
    ELSE IF IsSpace(SubSeq(s, Len(s), Len(s)))
         THEN RStrip(SubSeq(s, 1, Len(s) - 1))
         ELSE s

Strip(s) == RStrip(LStrip(s))

\* str.split(): cut at runs of whitespace, no empty words
Split(s) ==
    LET Space(i) == IsSpace(SubSeq(s, i, i))
        starts   == { i \in 1..Len(s) : ~Space(i) /\ (i = 1 \/ Space(i - 1)) }
        WordEnd(i) ==
            CHOOSE j \in i..Len(s) :
                /\ (j = Len(s) \/ Space(j + 1))
                /\ \A k \in i..j : ~Space(k)
        nth(n) == CHOOSE i \in starts :
                      Cardinality({ j \in starts : j < i }) = n - 1
    IN  [n \in 1..Cardinality(starts) |-> SubSeq(s, nth(n), WordEnd(nth(n)))]

\* sep.join(items)
RECURSIVE Join(_, _)
Join(sep, items) ==
    IF items = <<>> THEN ""
    ELSE IF Len(items) = 1 THEN items[1]
    ELSE items[1] \o sep \o Join(sep, Tail(items))

RECURSIVE SumSeq(_)
SumSeq(xs) == IF xs = <<>> THEN 0 ELSE Head(xs) + SumSeq(Tail(xs))

-----------------------------------------------------------------------------
(* Floats in thousandths *)

ONE == 1000

Min(a, b) == IF a < b THEN a ELSE b
Max(a, b) == IF a > b THEN a ELSE b

\* str(float) of a value in [0, 1]: "0.0", "0.2", "0.65", "1.0"
Digits3(n) ==
    LET d1 == n \div 100
        d2 == (n \div 10) % 10
        d3 == n % 10
    IN  IF d3 /= 0 THEN ToString(d1) \o ToString(d2) \o ToString(d3)
        ELSE IF d2 /= 0 THEN ToString(d1) \o ToString(d2)
        ELSE ToString(d1)

FloatStr(c) == ToString(c \div ONE) \o "." \o Digits3(c % ONE)

-----------------------------------------------------------------------------
(* app/constants.py and config_base *)

STOPWORDS == {"de", "la", "el", "y", "o", "que"}

RAG_NEGATIVE_PHRASES ==
    << "no contiene informacion",
       "no se encontro informacion",
       "no incluye informacion",
       "no puedo responder",
       "desconozco" >>

SEARCH_K == 5

-----------------------------------------------------------------------------
(* app/rag.py *)

Filename(doc) == Get(doc.metadata, "filename", None)

\* one "[Document i] - Source: f\ncontent" block per non-empty fragment
format_context(docs) ==
    LET top == SubSeq(docs, 1, Min(Len(docs), SEARCH_K))
        Header(i) ==
            "[Document " \o ToString(i) \o "]"
              \o (IF Truthy(Filename(top[i]))
                  THEN " - Source: " \o Filename(top[i]) ELSE "")
        Block(i) == [ content |-> Strip(top[i].page_content),
                      text    |-> Header(i) \o "\n" \o Strip(top[i].page_content) ]
        Useful(block) == block.content /= ""
        blocks == SelectSeq([i \in 1..Len(top) |-> Block(i)], Useful)
        parts == [i \in 1..Len(blocks) |-> blocks[i].text]
    IN  Join("\n\n", parts)

\* a / b in thousandths for a >= 0 and b /= 0, rounded toward zero
Quot(a, b) == IF b > 0 THEN a \div b ELSE 0 - (a \div (0 - b))

\* 1 / (1 + d); Python raises ZeroDivisionError when d = -1.0
similarity(d) == Quot(ONE * ONE, ONE + d)

\* variant: only the absence of an answer is a guard rail
guard_rails_answer_only(rag_answer, docs) ==
    ~Truthy(rag_answer)

\* variant: only the absence of fragments is a guard rail
guard_rails_docs_only(rag_answer, docs) ==
    docs = <<>>

\* `not docs or not rag_answer`
guard_rails(rag_answer, docs) ==
    docs = <<>> \/ ~Truthy(rag_answer)

\* variant: the phrases are looked for in the answer as written
says_unknown_cased(rag_answer) ==
    \E i \in 1..Len(RAG_NEGATIVE_PHRASES) :
        Contains(rag_answer, RAG_NEGATIVE_PHRASES[i])

\* any(phrase in answer_lower for phrase in RAG_NEGATIVE_PHRASES)
says_unknown(rag_answer) ==
    \E i \in 1..Len(RAG_NEGATIVE_PHRASES) :
        Contains(Lower(rag_answer), RAG_NEGATIVE_PHRASES[i])

\* the call leaves compute_confidence with ZeroDivisionError: the list
\* comprehension of similarities is reached and divides by zero
compute_confidence_raises(query, rag_answer, docs, scored_docs) ==
    /\ ~guard_rails(rag_answer, docs)
    /\ ~says_unknown(rag_answer)
    /\ \E i \in 1..Len(scored_docs) : ONE + scored_docs[i][2] = 0

\* the value returned when the call does not raise
compute_confidence(query, rag_answer, docs, scored_docs) ==
    IF guard_rails(rag_answer, docs) THEN 0
    ELSE
    LET answer_lower == Lower(rag_answer)
        query_lower  == Lower(query)
    IN
    IF says_unknown(rag_answer)
    THEN 200
    ELSE
    LET base == 400
        similarities == [i \in 1..Len(scored_docs) |-> similarity(scored_docs[i][2])]
        retrieval ==
            IF scored_docs /= <<>>
            THEN (4 * (SumSeq(similarities) \div Len(similarities))) \div 10
            ELSE 0
        count ==
            IF Len(docs) >= 5 THEN 100
            ELSE IF Len(docs) >= 3 THEN 50
            ELSE 0
        answer_len == Len(Split(rag_answer))
        length ==
            IF answer_len > 50 THEN 50
            ELSE IF answer_len < 10 THEN -100
            ELSE 0
        NotStop(w) == w \notin STOPWORDS
        query_words == SelectSeq(Split(query_lower), NotStop)
        matches == Cardinality({i \in 1..Len(query_words) :
                                   Contains(answer_lower, query_words[i])})
        lexical ==
            IF query_words /= <<>>
            THEN (200 * matches) \div Len(query_words)
            ELSE 0
        confidence == base + retrieval + count + length + lexical
    IN  Min(Max(confidence, 0), ONE)

RECURSIVE SourcesFrom(_, _, _)
SourcesFrom(docs, i, sources) ==
    IF i > Len(docs) THEN sources
    ELSE LET filename == Filename(docs[i])
         IN  SourcesFrom(docs, i + 1,
                 IF Truthy(filename) /\ \A j \in 1..Len(sources) : sources[j] /= filename
                 THEN Append(sources, filename)
                 ELSE sources)

extract_sources(docs) ==
    SourcesFrom(SubSeq(docs, 1, Min(Len(docs), SEARCH_K)), 1, <<>>)

empty_rag_response(message, sources) ==
    [ answer         |-> message,
      confidence     |-> 0,
      sources        |-> OrElse(sources, <<>>),
      rag_context    |-> "",
      requires_human |-> TRUE ]

\* env holds what the collaborators return for this query:
\*   env.docs    retriever.invoke(query)
\*   env.answer  rag_chain.invoke(query)
\*   env.scored  vectorstore.similarity_search_with_score(query, k=SEARCH_K)
query_rag(query, env) ==
    LET docs == env.docs IN
    IF docs = <<>>
    THEN empty_rag_response(
             "No se encontro informacion relevante en la base de conocimiento.", None)
    ELSE
    LET context == format_context(docs)
        sources == extract_sources(docs)
    IN
    IF Strip(context) = ""
    THEN empty_rag_response(
             "Se encontraron documentos, pero no contienen informacion util.", sources)
    ELSE
    [ answer     |-> env.answer,
      confidence |-> compute_confidence(query, env.answer, docs, env.scored),
      sources    |-> sources ]

-----------------------------------------------------------------------------
(* app/schemas.py *)

StateKeys ==
    { "query", "rag_answer", "confidence", "sources", "rag_context",
      "category", "requires_human", "human_answer", "final_answer", "history" }

\* fields declared Optional[str]
OptionalKeys ==
    { "rag_answer", "rag_context", "category", "human_answer", "final_answer" }

\* fields of HelpdeskStateModel without a default
RequiredKeys == StateKeys \ { "sources", "history" }

\* HelpdeskStateModel(**values) raises ValidationError unless this holds
Validates(values) ==
    /\ RequiredKeys \subseteq DOMAIN values
    /\ values["confidence"] >= 0
    /\ values["confidence"] <= ONE

\* HelpdeskStateModel(**values).model_dump(exclude_none=True)
model_dump(values) ==
    LET full == [k \in StateKeys |->
                    IF k \in DOMAIN values THEN values[k] ELSE <<>>]
        kept == {k \in StateKeys : ~(k \in OptionalKeys /\ full[k] = None)}
    IN  [k \in kept |-> full[k]]

-----------------------------------------------------------------------------
(* app/graph.py: nodes *)

\* variant: the requires_human flag of the RAG response is written too
run_rag_with_flag(state, env) ==
    LET result == query_rag(state["query"], env) IN
    [ rag_answer     |-> result["answer"],
      confidence     |-> result["confidence"],
      sources        |-> result["sources"],
      rag_context    |-> Get(result, "rag_context", result["answer"]),
      requires_human |-> Get(result, "requires_human", FALSE),
      history        |-> << "RAG ejecutado con MultiQuery + MMR",
                            "Confianza heuristica obtenida: " \o FloatStr(result["confidence"]),
                            "Fuentes consultadas: " \o ToString(Len(result["sources"])) >> ]

run_rag(state, env) ==
    LET result == query_rag(state["query"], env) IN
    [ rag_answer  |-> result["answer"],
      confidence  |-> result["confidence"],
      sources     |-> result["sources"],
      rag_context |-> Get(result, "rag_context", result["answer"]),
      history     |-> << "RAG ejecutado con MultiQuery + MMR",
                         "Confianza heuristica obtenida: " \o FloatStr(result["confidence"]),
                         "Fuentes consultadas: " \o ToString(Len(result["sources"])) >> ]

\* variant: the threshold itself is excluded
fallback_category_strict(state) ==
    IF Get(state, "confidence", 0) > 600 THEN "automatic" ELSE "escalated"

\* defensive fallback when the classifier names neither category
fallback_category(state) ==
    IF Get(state, "confidence", 0) >= 600 THEN "automatic" ELSE "escalated"

\* variant: 'escalated' is looked for first
category_of_escalated_first(state, response) ==
    LET content == Lower(response) IN
    IF Contains(content, "escalated") THEN "escalated"
    ELSE IF Contains(content, "automatic") THEN "automatic"
    ELSE fallback_category(state)

\* variant: the classifier's lowered text is taken as the category
category_of_raw(state, response) ==
    Lower(response)

\* response is response.content of the classification LLM
category_of(state, response) ==
    LET content == Lower(response) IN
    IF Contains(content, "automatic") THEN "automatic"
    ELSE IF Contains(content, "escalated") THEN "escalated"
    ELSE fallback_category(state)

classify_with_context(state, response) ==
    LET category == category_of(state, response) IN
    [ category |-> category,
      history  |-> << "Clasificacion realizada: " \o category,
                      "Justificacion LLM: " \o response >> ]

prepare_escalation(state) ==
    [ requires_human |-> TRUE,
      human_answer   |-> None,
      history        |-> << "Consulta escalada a agente humano." >> ]

\* variant: the RAG answer is finalised instead of the human one
process_human_answer_rag(state) ==
    IF Truthy(Get(state, "human_answer", None))
    THEN [ final_answer |-> state["rag_answer"],
           history      |-> << "Respuesta proporcionada por agente humano." >> ]
    ELSE [ history      |-> << "Esperando respuesta del agente humano." >> ]

process_human_answer(state) ==
    IF Truthy(Get(state, "human_answer", None))
    THEN [ final_answer |-> state["human_answer"],
           history      |-> << "Respuesta proporcionada por agente humano." >> ]
    ELSE [ history      |-> << "Esperando respuesta del agente humano." >> ]

\* variant: an answer already held is replaced
generate_final_answer_replace(state) ==
    LET answer  == Get(state, "rag_answer", "")
        sources == Get(state, "sources", <<>>)
    IN  [ final_answer |-> IF sources /= <<>>
                           THEN answer \o "\n\nFuentes consultadas: "
                                       \o Join(", ", sources)
                           ELSE answer,
          history |-> << "Respuesta final generada automaticamente." >> ]

\* variant: the sources are never appended
generate_final_answer_bare(state) ==
    IF Truthy(Get(state, "final_answer", None))
    THEN [ history |-> << "Respuesta final ya establecida por humano." >> ]
    ELSE [ final_answer |-> Get(state, "rag_answer", ""),
           history |-> << "Respuesta final generada automaticamente." >> ]

generate_final_answer(state) ==
    IF Truthy(Get(state, "final_answer", None))
    THEN [ history |-> << "Respuesta final ya establecida por humano." >> ]
    ELSE
    LET answer  == Get(state, "rag_answer", "")
        sources == Get(state, "sources", <<>>)
    IN  [ final_answer |->
              IF sources /= <<>>
              THEN answer \o "\n\nFuentes consultadas: " \o Join(", ", sources)
              ELSE answer,
          history |-> << "Respuesta final generada automaticamente." >> ]

\* variant: the two branches are swapped
route_after_classification_swapped(state) ==
    IF state["category"] = "automatic" THEN "escalation" ELSE "final_answer"

route_after_classification(state) ==
    IF state["category"] = "automatic" THEN "final_answer" ELSE "escalation"

-----------------------------------------------------------------------------
(* app/graph.py: graph and its execution by the LangGraph runtime *)

START == "__start__"

Nodes == { "rag", "classify", "escalation", "process_human", "final_answer" }

\* variant: the escalation branch leads on to final_answer
Successors_joined(node, state) ==
    CASE node = START           -> { "rag" }
      [] node = "rag"           -> { "classify" }
      [] node = "classify"      -> { route_after_classification(state) }
      [] node = "escalation"    -> { "final_answer" }
      [] node = "process_human" -> {}
      [] node = "final_answer"  -> {}

\* build_helpdesk_graph: the nodes triggered once `node` has written;
\* the empty set is END
Successors(node, state) ==
    CASE node = START           -> { "rag" }
      [] node = "rag"           -> { "classify" }
      [] node = "classify"      -> { route_after_classification(state) }
      [] node = "escalation"    -> { "process_human" }
      [] node = "process_human" -> {}
      [] node = "final_answer"  -> {}

\* variant: compiled without interrupt_before
INTERRUPT_BEFORE_none == {}

\* compile_helpdesk: interrupt_before
INTERRUPT_BEFORE == { "process_human" }

\* variant: history declared without the add reducer
ApplyWrites_overwrite(values, writes) ==
    [ k \in DOMAIN values \cup DOMAIN writes |->
        IF k \in DOMAIN writes THEN writes[k] ELSE values[k] ]

\* channel update: history is Annotated[List[str], add], the rest keep the
\* last value written
ApplyWrites(values, writes) ==
    [ k \in DOMAIN values \cup DOMAIN writes |->
        IF k = "history"
        THEN Get(values, "history", <<>>) \o Get(writes, "history", <<>>)
        ELSE IF k \in DOMAIN writes THEN writes[k] ELSE values[k] ]

\* a checkpoint: channel values, pending nodes, last writer
Checkpoint(values, next, as_node) ==
    [ values |-> values, next |-> next, as_node |-> as_node ]

EmptyValues == [ k \in {} |-> None ]

\* stream(input, config): the input is written as START and the entry node
\* becomes pending, on top of whatever the thread already holds
PutInput(store, thread_id, input) ==
    LET old    == IF thread_id \in DOMAIN store
                  THEN store[thread_id].values ELSE EmptyValues
        values == ApplyWrites(old, input)
    IN  Checkpoint(values, Successors(START, values), START)

\* one superstep: the pending node's writes are applied and its edges fire
RunNode(cp, node, writes) ==
    LET values == ApplyWrites(cp.values, writes)
    IN  Checkpoint(values, Successors(node, values), node)

\* variant: the update is applied as START, so the graph starts over
update_state_restart(cp, writes) ==
    LET values == ApplyWrites(cp.values, writes)
    IN  Checkpoint(values, Successors(START, values), START)

\* what update_state starts from on a thread without checkpoint: no
\* values, and START as the writer
EmptyCheckpoint == Checkpoint(EmptyValues, {}, START)

\* update_state(config, writes): applied as if written by the last writer
update_state(cp, writes) ==
    LET values == ApplyWrites(cp.values, writes)
    IN  Checkpoint(values, Successors(cp.as_node, values), cp.as_node)

-----------------------------------------------------------------------------
(* Inputs: what the user, the agent and the external collaborators supply *)

Queries == { "error 500" }

Doc(content, filename) ==
    [ page_content |-> content, metadata |-> [ filename |-> filename ] ]

DocFaq    == Doc("Ante un error 500 reinicie el servicio.", "faq.pdf")
DocManual == Doc("Manual de la aplicacion.", "manual.pdf")
DocBlank  == Doc("  \n", "vacio.pdf")

\* the fragments in the store: distinct ids; the last repeats the content of
\* the first under another file
Fragments ==
    << DocFaq,
       DocManual,
       Doc("Guia de errores del servidor.", "guia.pdf"),
       Doc("Registro del servidor.", "faq.pdf"),
       Doc("Politica de reinicio.", "manual.pdf"),
       Doc("Copias de seguridad.", "guia.pdf"),
       Doc("Contacto de soporte.", "faq.pdf"),
       Doc("Ante un error 500 reinicie el servicio.", "copia.pdf") >>

\* the fragments numbered by `numbers`, in that order
Frags(numbers) == [ i \in 1..Len(numbers) |-> Fragments[numbers[i]] ]

EnvNoDocs      == [ docs |-> <<>>, answer |-> "", scored |-> <<>> ]
EnvBlankDocs   == [ docs |-> << DocBlank >>, answer |-> "", scored |-> <<>> ]
EnvGood        == [ docs   |-> << DocFaq, DocManual >>,
                    answer |-> "Reinicie el servicio tras el Error 500",
                    scored |-> << <<DocFaq, 100>>, <<DocManual, 300>> >> ]
EnvEmptyAnswer == [ docs   |-> << DocManual >>,
                    answer |-> "",
                    scored |-> << <<DocManual, 900>> >> ]

RagEnvs == { EnvNoDocs, EnvBlankDocs, EnvGood, EnvEmptyAnswer }

ClassifierOutputs == { "AUTOMATIC: evidencia suficiente", "Escalated", "no lo se" }

HumanReplies == { "Refund issued.", "  " }

-----------------------------------------------------------------------------
(* app/ui.py *)

TicketIds == { "TK-" \o ToString(i) : i \in 1..MaxTickets }

\* generate_uuid(): an identifier never handed out before
generate_uuid(n) == "TK-" \o ToString(n + 1)

\* variant: every ticket runs on one fixed thread
Config_shared(ticket_id) == [ thread_id |-> "TK-1" ]

\* process_query: config = {"configurable": {"thread_id": ticket_id}}
Config(ticket_id) == [ thread_id |-> ticket_id ]

\* an identifier generate_uuid never hands out
UnknownTicketIds == { "TK-0" }

ThreadIds == { Config(t).thread_id : t \in TicketIds \cup UnknownTicketIds }

initial_state(query) ==
    [ query          |-> query,
      category       |-> None,
      rag_answer     |-> None,
      confidence     |-> 0,
      sources        |-> <<>>,
      rag_context    |-> None,
      requires_human |-> FALSE,
      human_answer   |-> None,
      final_answer   |-> None,
      history        |-> <<>> ]

Idle == [ kind |-> "idle" ]

Thread == op.config.thread_id

\* the static interrupt stops a run before process_human, except on the
\* first superstep of a run that resumes the thread
Interrupted ==
    /\ checkpoints[Thread].next \cap INTERRUPT_BEFORE /= {}
    /\ ~op.resuming

\* op.error: an exception left the stream and the handler is in its
\* except branch
Pending(node) ==
    /\ op.kind \in { "create", "resume" }
    /\ ~op.error
    /\ node \in checkpoints[Thread].next
    /\ ~Interrupted

StreamOver ==
    /\ op.kind \in { "create", "resume" }
    /\ (op.error \/ checkpoints[Thread].next = {} \/ Interrupted)

\* a call made by the pending node raises (store unreachable, LLM call
\* failed): no checkpoint is written for the superstep
Raise(node) ==
    /\ Pending(node)
    /\ op' = [op EXCEPT !.error = TRUE]
    /\ UNCHANGED <<checkpoints, tickets, next_id, ran, call>>

\* a node runs: checkpoint written, the update streamed to the handler,
\* which collects its history entries
Step(node, writes) ==
    /\ checkpoints' = [checkpoints EXCEPT ![Thread] = RunNode(@, node, writes)]
    /\ op' = [op EXCEPT !.history = @ \o Get(writes, "history", <<>>),
                        !.resuming = FALSE]
    /\ ran' = [ran EXCEPT ![Thread][node] = @ + 1]
    /\ UNCHANGED <<tickets, next_id, call>>

\* main, form "new_query": a ticket id is generated and process_query
\* starts streaming the graph from the initial state
Submit(query) ==
    /\ op.kind = "idle"
    /\ Strip(query) /= ""
    /\ next_id < MaxTickets
    /\ LET ticket_id == generate_uuid(next_id)
           config    == Config(ticket_id)
       IN  /\ checkpoints' =
                 (config.thread_id :>
                      PutInput(checkpoints, config.thread_id, initial_state(query)))
                 @@ checkpoints
           /\ op' = [ kind |-> "create", ticket_id |-> ticket_id, query |-> query,
                      config |-> config, history |-> <<>>, resuming |-> FALSE,
                      error |-> FALSE ]
    /\ next_id' = next_id + 1
    /\ UNCHANGED <<tickets, ran, call>>

RunRag ==
    /\ Pending("rag")
    /\ "query" \in DOMAIN checkpoints[Thread].values
    /\ \E env \in RagEnvs : Step("rag", run_rag(checkpoints[Thread].values, env))

\* retriever.invoke, rag_chain.invoke or similarity_search_with_score raise,
\* or state["query"] raises KeyError on a thread that holds no query
RunRagFails == Raise("rag")

Classify ==
    /\ Pending("classify")
    /\ \E response \in ClassifierOutputs :
          Step("classify", classify_with_context(checkpoints[Thread].values, response))

\* llm.invoke raises
ClassifyFails == Raise("classify")

PrepareEscalation ==
    /\ Pending("escalation")
    /\ Step("escalation", prepare_escalation(checkpoints[Thread].values))

ProcessHuman ==
    /\ Pending("process_human")
    /\ Step("process_human", process_human_answer(checkpoints[Thread].values))

GenerateFinalAnswer ==
    /\ Pending("final_answer")
    /\ Step("final_answer", generate_final_answer(checkpoints[Thread].values))

\* variant: the exception is swallowed and the state read back anyway
process_query_return_swallow(values, error) ==
    IF Validates(values) THEN model_dump(values) ELSE EmptyValues

\* what process_query returns as result: the validated state, or from the
\* except branch None (falsy, written here as the empty dict)
process_query_return(values, error) ==
    IF ~error /\ Validates(values) THEN model_dump(values) ELSE EmptyValues

\* process_query after the stream: get_state, validation, and main storing
\* the ticket when a result came back
CreateDone ==
    /\ op.kind = "create"
    /\ StreamOver
    /\ LET values == checkpoints[Thread].values
           result == process_query_return(values, op.error)
       IN
       IF result /= EmptyValues
       THEN tickets' =
               (op.ticket_id :>
                    [ query   |-> op.query,
                      result  |-> result,
                      history |-> op.history,
                      config  |-> op.config ])
               @@ tickets
       ELSE tickets' = tickets
    /\ op' = Idle
    /\ UNCHANGED <<checkpoints, next_id, ran, call>>

\* main: the human-in-the-loop panel of a ticket is shown
ShowsHumanPanel(result) ==
    /\ Get(result, "requires_human", FALSE)
    /\ ~Truthy(Get(result, "final_answer", None))

\* resume_with_human_answer, first half: the answer is injected
\* (op.before is an observer: the thread's checkpoint as the call found it)
StartResume(ticket_id, human_answer) ==
    LET config == tickets[ticket_id].config IN
    /\ checkpoints' =
           [checkpoints EXCEPT ![config.thread_id] =
               update_state(@, [ human_answer |-> human_answer ])]
    /\ op' = [ kind |-> "resume", ticket_id |-> ticket_id, config |-> config,
               human_answer |-> human_answer, history |-> <<>>, resuming |-> TRUE,
               error |-> FALSE, before |-> checkpoints[config.thread_id] ]
    /\ UNCHANGED <<tickets, next_id, ran, call>>

\* main, button "Enviar Respuesta"
SendResponse(ticket_id, human_reply) ==
    /\ op.kind = "idle"
    /\ ticket_id \in DOMAIN tickets
    /\ ShowsHumanPanel(tickets[ticket_id].result)
    /\ Strip(human_reply) /= ""
    /\ StartResume(ticket_id, human_reply)

\* main, button "Usar RAG"
UseRag(ticket_id) ==
    /\ op.kind = "idle"
    /\ ticket_id \in DOMAIN tickets
    /\ ShowsHumanPanel(tickets[ticket_id].result)
    /\ StartResume(ticket_id, Get(tickets[ticket_id].result, "rag_answer", ""))

\* resume_with_human_answer after the stream, and main updating the ticket
ResumeDone ==
    /\ op.kind = "resume"
    /\ StreamOver
    /\ LET values == checkpoints[Thread].values
           ok     == ~op.error /\ Validates(values)
           result == IF ok THEN model_dump(values) ELSE EmptyValues
           history == IF ok THEN op.history ELSE <<>>
       IN  IF op.ticket_id \in DOMAIN tickets
           THEN tickets' = [tickets EXCEPT ![op.ticket_id].result  = result,
                                           ![op.ticket_id].history = @ \o history]
           ELSE tickets' = tickets
    /\ op' = Idle
    /\ UNCHANGED <<checkpoints, next_id, ran, call>>

\* main, button "Limpiar Tickets"
ClearTickets ==
    /\ op.kind = "idle"
    /\ tickets' = << >>
    /\ UNCHANGED <<checkpoints, op, next_id, ran, call>>

-----------------------------------------------------------------------------
(* Specification *)

NoCall == [ fn |-> "none" ]

InitSession ==
    /\ checkpoints = << >>
    /\ tickets = << >>
    /\ op = Idle
    /\ next_id = 0
    /\ ran = [ th \in ThreadIds |-> [ n \in Nodes |-> 0 ] ]

Init ==
    /\ InitSession
    /\ call = NoCall

Next ==
    \/ \E query \in Queries : Submit(query)
    \/ RunRag
    \/ RunRagFails
    \/ Classify
    \/ ClassifyFails
    \/ PrepareEscalation
    \/ ProcessHuman
    \/ GenerateFinalAnswer
    \/ CreateDone
    \/ \E t \in TicketIds, h \in HumanReplies : SendResponse(t, h)
    \/ \E t \in TicketIds : UseRag(t)
    \/ ResumeDone
    \/ ClearTickets

Spec == Init /\ [][Next]_vars

\* variant: the checkpointer keeps its checkpoints in process memory
persisted_in_memory(store) == << >>

\* compile_helpdesk: the checkpoints are rows of the file helpdesk.db, which
\* a new process opens again
persisted(store) == store

\* the process ends, at any point, and the application is started again:
\* the session state is initialised anew, the checkpoint file is reopened
Restarted == [ kind |-> "idle", boot |-> "restarted" ]

Restart ==
    /\ checkpoints' = persisted(checkpoints)
    /\ tickets' = << >>
    /\ op' = Restarted
    /\ UNCHANGED <<next_id, ran, call>>

\* resume_with_human_answer(config, human_answer) called for a thread_id
\* that no ticket of the ledger carries (the panel of main cannot do this:
\* it only offers the tickets of the ledger)
ResumeThread(thread_id, human_answer) ==
    /\ op.kind = "idle"
    /\ thread_id \notin DOMAIN tickets
    /\ LET config == [ thread_id |-> thread_id ]
           before == IF thread_id \in DOMAIN checkpoints
                     THEN checkpoints[thread_id] ELSE EmptyCheckpoint
       IN  /\ checkpoints' =
                  (thread_id :>
                       update_state(before, [ human_answer |-> human_answer ]))
                  @@ checkpoints
           /\ op' = [ kind |-> "resume", ticket_id |-> None, config |-> config,
                      human_answer |-> human_answer, history |-> <<>>,
                      resuming |-> TRUE, error |-> FALSE, before |-> before,
                      restarted |-> op = Restarted ]
    /\ UNCHANGED <<tickets, next_id, ran, call>>

\* creating tickets and answering them from the panel, as in Next, with
\* fewer tickets, and the two steps above
NextRestart ==
    \/ \E query \in Queries : next_id < MaxRestartTickets /\ Submit(query)
    \/ RunRag
    \/ RunRagFails
    \/ Classify
    \/ ClassifyFails
    \/ PrepareEscalation
    \/ ProcessHuman
    \/ GenerateFinalAnswer
    \/ CreateDone
    \/ \E t \in TicketIds, h \in HumanReplies : SendResponse(t, h)
    \/ ResumeDone
    \/ Restart
    \/ \E thread_id \in DOMAIN checkpoints
                             \cup { Config(t).thread_id : t \in UnknownTicketIds },
          human_answer \in { h \in HumanReplies : Strip(h) /= "" } :
          ResumeThread(thread_id, human_answer)

SpecRestart == Init /\ [][NextRestart]_vars

\* resume_with_human_answer: the stream raises while process_human is due
\* (the checkpointer's SQLite connection fails, for one); the function is
\* then in its except branch
ProcessHumanFails == Raise("process_human")

\* creating tickets and answering them from the panel, as in Next, with
\* such failures
NextFailing ==
    \/ \E query \in Queries : next_id < MaxFailingTickets /\ Submit(query)
    \/ RunRag
    \/ Classify
    \/ PrepareEscalation
    \/ ProcessHuman
    \/ ProcessHumanFails
    \/ GenerateFinalAnswer
    \/ CreateDone
    \/ \E t \in TicketIds, h \in HumanReplies : SendResponse(t, h)
    \/ \E t \in TicketIds : UseRag(t)
    \/ ResumeDone

SpecFailing == Init /\ [][NextFailing]_vars

\* A retrieval with strong evidence: five fragments at distance 0.111 (mean
\* similarity 0.9) and an answer of eighty words that repeats the query's
\* terms
LongAnswer ==
    "Ante un error 500 reinicie el servicio y revise el registro "
        \o Join(" ", [i \in 1..69 |-> "dato"])

\* the retrievals of these runs: that one, a weaker one and an empty one
SupportedEnvs ==
    { [ docs   |-> Frags(<< 1, 2, 3, 4, 5 >>),
        answer |-> LongAnswer,
        scored |-> [i \in 1..5 |-> << Fragments[i], 111 >>] ],
      EnvGood, EnvNoDocs }

RunRagSupported ==
    /\ Pending("rag")
    /\ "query" \in DOMAIN checkpoints[Thread].values
    /\ \E env \in SupportedEnvs :
          Step("rag", run_rag(checkpoints[Thread].values, env))

\* creating tickets and answering them from the panel, as in Next, over
\* these retrievals
NextSupported ==
    \/ \E query \in Queries : next_id < MaxSupportedTickets /\ Submit(query)
    \/ RunRagSupported
    \/ Classify
    \/ PrepareEscalation
    \/ ProcessHuman
    \/ GenerateFinalAnswer
    \/ CreateDone
    \/ \E t \in TicketIds, h \in HumanReplies : SendResponse(t, h)
    \/ ResumeDone

SpecSupported == Init /\ [][NextSupported]_vars

\* A second thread runs resume_with_human_answer on the config of a ticket
\* that waits for its answer, while the first may be inside the same
\* function: the function takes no lock, and both go through the one
\* connection that compile_helpdesk opens with check_same_thread=False.
\* `call` holds the second caller's locals.
SecondResumeStart(ticket_id) ==
    /\ call = NoCall
    /\ ticket_id \in DOMAIN tickets
    /\ ShowsHumanPanel(tickets[ticket_id].result)
    /\ \E human_answer \in
             { h \in HumanReplies : Strip(h) /= "" }
                 \cup { Get(tickets[ticket_id].result, "rag_answer", "") } :
          LET config == tickets[ticket_id].config IN
          /\ checkpoints' =
                 [checkpoints EXCEPT ![config.thread_id] =
                     update_state(@, [ human_answer |-> human_answer ])]
          /\ call' = [ fn |-> "resume_with_human_answer", config |-> config,
                       human_answer |-> human_answer, pc |-> "stream",
                       resuming |-> TRUE, result |-> EmptyValues ]
    /\ UNCHANGED <<tickets, op, next_id, ran>>

SecondStreaming ==
    /\ call.fn = "resume_with_human_answer"
    /\ call.pc = "stream"

\* the second caller's stream(None) has run to its end or to the interrupt
SecondStreamOver ==
    LET cp == checkpoints[call.config.thread_id] IN
    \/ cp.next = {}
    \/ cp.next \cap INTERRUPT_BEFORE /= {} /\ ~call.resuming

\* the second caller's stream runs the pending node process_human
SecondProcessHuman ==
    /\ SecondStreaming
    /\ ~SecondStreamOver
    /\ LET th == call.config.thread_id
           cp == checkpoints[th]
       IN  /\ "process_human" \in cp.next
           /\ checkpoints' =
                  [checkpoints EXCEPT ![th] =
                      RunNode(cp, "process_human", process_human_answer(cp.values))]
           /\ ran' = [ran EXCEPT ![th]["process_human"] = @ + 1]
    /\ call' = [call EXCEPT !.resuming = FALSE]
    /\ UNCHANGED <<tickets, op, next_id>>

\* the second caller reads the state back and returns it
SecondResumeDone ==
    /\ SecondStreaming
    /\ SecondStreamOver
    /\ LET values == checkpoints[call.config.thread_id].values IN
       call' = [call EXCEPT !.pc = "done",
                            !.result = IF Validates(values) THEN model_dump(values)
                                       ELSE EmptyValues]
    /\ UNCHANGED session

NextShared ==
    \/ \E query \in Queries : next_id < MaxSharedTickets /\ Submit(query)
    \/ RunRag
    \/ RunRagFails
    \/ Classify
    \/ ClassifyFails
    \/ PrepareEscalation
    \/ ProcessHuman
    \/ GenerateFinalAnswer
    \/ CreateDone
    \/ \E t \in TicketIds, h \in HumanReplies : SendResponse(t, h)
    \/ \E t \in TicketIds : UseRag(t)
    \/ ResumeDone
    \/ ClearTickets
    \/ \E t \in TicketIds : SecondResumeStart(t)
    \/ SecondProcessHuman
    \/ SecondResumeDone

SpecShared == Init /\ [][NextShared]_vars

\* the steps of a running handler: process_query and
\* resume_with_human_answer are synchronous calls that iterate the stream
\* to its end, read the state back and return
HandlerStep ==
    \/ RunRagFails
    \/ ClassifyFails
    \/ CreateDone
    \/ ResumeDone
    \/ PrepareEscalation
    \/ ProcessHuman
    \/ GenerateFinalAnswer
    \/ RunRag
    \/ Classify

\* a handler that was started keeps running until it returns
LiveSpec == Init /\ [][Next]_vars /\ WF_vars(HandlerStep)

-----------------------------------------------------------------------------
(* classify_with_context as a function of its inputs *)

ClassifyConfidences == { 0, 200, 599, 600, 601, 835, 1000 }

ClassifyStates ==
    { [ query |-> q, rag_context |-> "" ] : q \in Queries }
      \cup
    { [ query |-> q, rag_context |-> "", confidence |-> c ] :
          q \in Queries, c \in ClassifyConfidences }

ClassifyResponses ==
    ClassifierOutputs
      \cup { "", "Automatically ESCALATED", "escalated, not automatic",
             "auto matic", "escalate" }

InitClassify ==
    /\ InitSession
    /\ call \in { [ fn |-> "classify_with_context", state |-> st,
                    response |-> r, done |-> FALSE, result |-> EmptyValues ] :
                      st \in ClassifyStates, r \in ClassifyResponses }

CallClassify ==
    /\ call.fn = "classify_with_context"
    /\ ~call.done
    /\ call' = [call EXCEPT !.done = TRUE,
                            !.result = classify_with_context(call.state, call.response)]
    /\ UNCHANGED session

SpecClassify == InitClassify /\ [][CallClassify]_vars

-----------------------------------------------------------------------------
(* build_retriever's retriever as a single call *)

\* sha256 hex digest: distinct texts get distinct digests
hash_text(text) == "sha256:" \o text

\* the content-derived id of a fragment, as create_vectorstore computes it
\* from page_content + str(metadata)
FragmentId(doc) ==
    hash_text(doc.page_content \o "{'filename': '" \o doc.metadata.filename \o "'}")

\* the most reformulations the query LLM lists in one reply (the prompt asks
\* for three, one per line)
MaxReformulations == 3

RECURSIVE Concat(_)
Concat(lists) ==
    IF lists = <<>> THEN <<>> ELSE Head(lists) \o Concat(Tail(lists))

\* variant: nothing is dropped from the union
unique_union_all(documents) == documents

\* MultiQueryRetriever.unique_union: a document equal to an earlier one is
\* dropped, the others keep their place
unique_union(documents) ==
    LET First(i) == \A j \in 1..(i - 1) : documents[j] /= documents[i]
        kept     == { i \in 1..Len(documents) : First(i) }
        nth(n)   == CHOOSE i \in kept : Cardinality({ j \in kept : j < i }) = n - 1
    IN  [n \in 1..Cardinality(kept) |-> documents[nth(n)]]

\* MultiQueryRetriever: the base retriever runs once per reformulation, in
\* the order the LLM listed them, and the results are united
mmr_multi_retriever(per_query) == unique_union(Concat(per_query))

\* EnsembleRetriever.weighted_reciprocal_rank over two result lists with
\* weights 0.7 and 0.3: documents are identified by page_content, scored by
\* the weighted sum of 1 / (rank + c) with c = 60 (here in millionths), and
\* sorted by score, highest first (a stable sort)
weighted_reciprocal_rank(first, second) ==
    LET all == first \o second
        Same(a, b) == a.page_content = b.page_content
        Score(doc) ==
            SumSeq([r \in 1..Len(first) |->
                       IF Same(first[r], doc)
                       THEN 700000 \div (r + 60) ELSE 0])
              + SumSeq([r \in 1..Len(second) |->
                       IF Same(second[r], doc)
                       THEN 300000 \div (r + 60) ELSE 0])
        kept == { i \in 1..Len(all) :
                    \A j \in 1..(i - 1) : ~Same(all[j], all[i]) }
        Before(i, j) == \/ Score(all[i]) > Score(all[j])
                        \/ Score(all[i]) = Score(all[j]) /\ i < j
        nth(n) == CHOOSE i \in kept :
                      Cardinality({ j \in kept : Before(j, i) }) = n - 1
    IN  [n \in 1..Cardinality(kept) |-> all[nth(n)]]

\* build_retriever: the retriever returned for ENABLE_HYBRID_SEARCH = hybrid
retrieve(hybrid, per_query, by_similarity) ==
    IF hybrid
    THEN weighted_reciprocal_rank(mmr_multi_retriever(per_query), by_similarity)
    ELSE mmr_multi_retriever(per_query)

\* one search with k = SEARCH_K returns at most SEARCH_K fragments of the
\* store, none twice; there is one MMR search per reformulation and, in
\* hybrid mode, one similarity search
InitRetriever ==
    LET SearchResults ==
            { Frags(<< 1, 2, 3, 4, 5 >>), Frags(<< 3, 1, 6, 7, 8 >>),
              Frags(<< 6, 2 >>), << >> }
        SimilarityResults ==
            { Frags(<< 1, 2, 3, 4, 5 >>), Frags(<< 8, 7, 1 >>) }
    IN  /\ InitSession
        /\ call \in { [ fn |-> "retrieve", hybrid |-> h, per_query |-> pq,
                        by_similarity |-> sim, done |-> FALSE,
                        union |-> <<>>, result |-> <<>> ] :
                          h \in BOOLEAN,
                          pq \in UNION { [1..n -> SearchResults] :
                                            n \in 1..MaxReformulations },
                          sim \in SimilarityResults }

CallRetriever ==
    /\ call.fn = "retrieve"
    /\ ~call.done
    /\ call' = [call EXCEPT
                   !.done   = TRUE,
                   !.union  = mmr_multi_retriever(call.per_query),
                   !.result = retrieve(call.hybrid, call.per_query,
                                       call.by_similarity)]
    /\ UNCHANGED session

SpecRetriever == InitRetriever /\ [][CallRetriever]_vars

-----------------------------------------------------------------------------
(* create_vectorstore, called twice: one call after the other, or both at
   once *)

Callers == { 1, 2 }

\* Chroma validates the ids of one request: a repeated id is refused with
\* DuplicateIDError and nothing of the request is written
add_documents_raises(ids) ==
    \E i, j \in 1..Len(ids) : i < j /\ ids[i] = ids[j]

\* vectorstore.add_documents(documents, ids): upsert by id into the
\* collection, which holds one entry per id
add_documents(store, documents, ids) ==
    [ id \in DOMAIN store \cup { ids[i] : i \in 1..Len(ids) } |->
        IF \E i \in 1..Len(ids) : ids[i] = id
        THEN documents[CHOOSE i \in 1..Len(ids) : ids[i] = id]
        ELSE store[id] ]

Finished(c) == call.caller[c].pc \in { "done", "raised" }

\* the chunks load_documents hands over (a text that repeats within one file
\* gives two chunks with the same content and metadata), and the collection
\* as it is persisted: empty, or holding the second fragment
InitIngest ==
    LET IngestBatches ==
            { Frags(<< 1, 2 >>), Frags(<< 2, 3 >>), Frags(<< 1, 2, 1 >>), << >> }
        InitialStores ==
            { add_documents(<< >>, << >>, << >>),
              add_documents(<< >>, Frags(<< 2 >>), << FragmentId(Fragments[2]) >>) }
    IN  /\ InitSession
        /\ call \in { [ fn |-> "create_vectorstore", store |-> st,
                        caller |-> [ c \in Callers |->
                            [ docs |-> batches[c], pc |-> "start", existing |-> {},
                              new_ids |-> << >>, inserted |-> 0,
                              after |-> {}, found |-> st ] ] ] :
                          st \in InitialStores,
                          batches \in [Callers -> IngestBatches] }

\* existing = set(vectorstore.get()["ids"])
\* (after and found are observers: the calls that had returned, and the
\* store, when this call read the ids)
ReadExisting(c) ==
    /\ call.fn = "create_vectorstore"
    /\ call.caller[c].pc = "start"
    /\ call' = [call EXCEPT
                   !.caller[c].pc       = "filtered",
                   !.caller[c].existing = DOMAIN call.store,
                   !.caller[c].after    = { d \in Callers \ { c } : Finished(d) },
                   !.caller[c].found    = call.store]
    /\ UNCHANGED session

\* the loop over zip(docs, ids) that keeps the documents whose id was not
\* read, the early return and add_documents
AddNew(c) ==
    /\ call.fn = "create_vectorstore"
    /\ call.caller[c].pc = "filtered"
    /\ LET IsNew(doc) == FragmentId(doc) \notin call.caller[c].existing
           new_docs   == SelectSeq(call.caller[c].docs, IsNew)
           new_ids    == [ i \in 1..Len(new_docs) |-> FragmentId(new_docs[i]) ]
       IN  call' =
             IF new_docs = << >>
             THEN [call EXCEPT !.caller[c].pc = "done"]
             ELSE IF add_documents_raises(new_ids)
             THEN [call EXCEPT !.caller[c].pc = "raised",
                               !.caller[c].new_ids = new_ids]
             ELSE [call EXCEPT !.caller[c].pc = "done",
                               !.caller[c].new_ids = new_ids,
                               !.caller[c].inserted = Len(new_docs),
                               !.store = add_documents(call.store, new_docs, new_ids)]
    /\ UNCHANGED session

NextIngest ==
    \/ \E c \in Callers : ReadExisting(c)
    \/ \E c \in Callers : AddNew(c)

SpecIngest == InitIngest /\ [][NextIngest]_vars

-----------------------------------------------------------------------------
(* generate_final_answer as a single call *)

\* final_answer is None until a node writes it, and process_human writes a
\* non-empty human answer; sources may be missing from the state
InitFinal ==
    LET FinalRagAnswers ==
            { "", "Reinicie el servicio",
              "Se encontraron documentos, pero no contienen informacion util.",
              "Ante un Error 500 reinicie el servicio y revise el log del servidor" }
        FinalSources ==
            { <<>>, << "faq.pdf" >>, << "faq.pdf", "manual.pdf" >>,
              << "manual.pdf", "guia.pdf", "faq.pdf" >> }
        FinalAnswersHeld == { None, "Refund issued.", "Llame al 555." }
        FinalStates ==
            { [ query |-> "error 500", rag_answer |-> a, sources |-> src ] :
                  a \in FinalRagAnswers, src \in FinalSources }
              \cup
            { [ query |-> "error 500", rag_answer |-> a, sources |-> src,
                final_answer |-> f ] :
                  a \in FinalRagAnswers, src \in FinalSources,
                  f \in FinalAnswersHeld }
              \cup
            { [ query |-> "error 500", rag_answer |-> a, final_answer |-> f ] :
                  a \in FinalRagAnswers, f \in FinalAnswersHeld }
    IN  /\ InitSession
        /\ call \in { [ fn |-> "generate_final_answer", state |-> st,
                        done |-> FALSE, result |-> EmptyValues ] :
                          st \in FinalStates }

CallFinal ==
    /\ call.fn = "generate_final_answer"
    /\ ~call.done
    /\ call' = [call EXCEPT !.done = TRUE,
                            !.result = generate_final_answer(call.state)]
    /\ UNCHANGED session

SpecFinal == InitFinal /\ [][CallFinal]_vars

-----------------------------------------------------------------------------
(* compute_confidence as a single call *)

ConfidenceQueries == { "error 500", "de la" }

ConfidenceAnswers ==
    { None, "",
      "Desconozco la respuesta",
      "El manual no contiene informacion",
      "Reinicie el servicio",
      "Ante un Error 500 reinicie el servicio y revise el log del servidor" }

ConfidenceDocs ==
    { <<>>,
      << DocFaq >>,
      << DocFaq, DocManual, DocBlank >>,
      << DocFaq, DocManual, DocBlank, DocFaq, DocManual >> }

\* distances: none, zero, small, very large, and negative ones on both
\* sides of -1.0
ConfidenceDistances ==
    { <<>>, << 0 >>, << 250, 1000 >>, << 1000000000 >>,
      << -500 >>, << -999 >>, << -1000 >>, << 300, -1000 >>, << -2000 >>,
      << -1000000000 >> }

ConfidenceScored ==
    { [i \in 1..Len(ds) |-> << DocFaq, ds[i] >>] : ds \in ConfidenceDistances }

InitConfidence ==
    /\ InitSession
    /\ call \in { [ fn |-> "compute_confidence", query |-> q, rag_answer |-> a,
                    docs |-> F, scored_docs |-> S,
                    done |-> FALSE, raised |-> FALSE, result |-> None ] :
                      q \in ConfidenceQueries, a \in ConfidenceAnswers,
                      F \in ConfidenceDocs, S \in ConfidenceScored }

\* the call returns a float, or raises and returns nothing
CallConfidence ==
    /\ call.fn = "compute_confidence"
    /\ ~call.done
    /\ call' =
          IF compute_confidence_raises(call.query, call.rag_answer,
                                       call.docs, call.scored_docs)
          THEN [call EXCEPT !.done = TRUE, !.raised = TRUE]
          ELSE [call EXCEPT !.done = TRUE,
                            !.result = compute_confidence(call.query, call.rag_answer,
                                                          call.docs, call.scored_docs)]
    /\ UNCHANGED session

SpecConfidence == InitConfidence /\ [][CallConfidence]_vars

-----------------------------------------------------------------------------
(* Properties of the resolution state machine *)

AwaitingHuman(cp) == cp.next = { "process_human" }

IsPrefix(a, b) == Len(a) <= Len(b) /\ SubSeq(b, 1, Len(a)) = a

\* fields produced by retrieval and classification
FrozenKeys ==
    { "query", "rag_answer", "confidence", "sources", "rag_context", "category" }

\* C1: when classification yields 'escalated', create stops suspended
\* before process_human: requires_human is true, human_answer and
\* final_answer are null, process_human has not run, and the whole state
\* is in the checkpoint store under thread_id = ticket_id.
C1_CreateSuspendsBeforeProcessHuman ==
    ( /\ op.kind = "create"
      /\ StreamOver
      /\ checkpoints[Thread].values["category"] = "escalated" )
    => /\ op.ticket_id \in DOMAIN checkpoints
       /\ LET cp == checkpoints[op.ticket_id] IN
          /\ cp.next = { "process_human" }
          /\ DOMAIN cp.values = StateKeys
          /\ cp.values["query"] = op.query
          /\ cp.values["requires_human"] = TRUE
          /\ cp.values["human_answer"] = None
          /\ cp.values["final_answer"] = None
          /\ ran[op.ticket_id]["process_human"] = 0

C1_Witness ==
    /\ op.kind = "create"
    /\ StreamOver
    /\ checkpoints[Thread].values["category"] = "escalated"
    /\ AwaitingHuman(checkpoints[op.ticket_id])

\* C2: a resume of a ticket in AwaitingHuman with a non-empty text h ends
\* with final_answer = h verbatim, requires_human still true, the machine at
\* its end state and the history at least one entry longer.
C2_ResumeFinalizesWithHumanAnswer ==
    ( /\ op.kind = "resume"
      /\ StreamOver
      /\ AwaitingHuman(op.before)
      /\ Truthy(op.human_answer) )
    => LET cp == checkpoints[Thread] IN
       /\ cp.values["final_answer"] = op.human_answer
       /\ cp.values["requires_human"] = TRUE
       /\ cp.next = {}
       /\ Len(cp.values["history"]) >= Len(op.before.values["history"]) + 1
       /\ Validates(cp.values)
       /\ model_dump(cp.values)["final_answer"] = op.human_answer

C2_Witness ==
    /\ op.kind = "resume"
    /\ StreamOver
    /\ AwaitingHuman(op.before)
    /\ op.human_answer = "Refund issued."
    /\ checkpoints[Thread].values["final_answer"] = "Refund issued."

\* C3: a resume that finds human_answer still null appends a 'waiting'
\* entry and leaves the machine halted again in AwaitingHuman, with
\* confidence, category and sources as before and only history growing.
C3_NullResumeHaltsAgain ==
    ( /\ op.kind = "resume"
      /\ StreamOver
      /\ ~Truthy(op.human_answer) )
    => LET cp == checkpoints[Thread] IN
       /\ AwaitingHuman(cp)
       /\ cp.values["final_answer"] = None
       /\ \A k \in { "confidence", "category", "sources" } :
              cp.values[k] = op.before.values[k]
       /\ IsPrefix(op.before.values["history"], cp.values["history"])

\* C4: final_answer is non-null exactly when the machine is terminal (at
\* its end state, no node pending).
C4_FinalAnswerIffTerminal ==
    \A th \in DOMAIN checkpoints :
        (checkpoints[th].values["final_answer"] /= None)
            <=> (checkpoints[th].next = {})

\* C5: every step leaves the history of each ticket a prefix of the history
\* after it, in the checkpoint and in the ledger.
C5_HistoryAppendOnly ==
    [][ /\ \A th \in DOMAIN checkpoints :
              /\ th \in DOMAIN checkpoints'
              /\ IsPrefix(checkpoints[th].values["history"],
                          checkpoints'[th].values["history"])
        /\ \A t \in DOMAIN tickets \cap DOMAIN tickets' :
              IsPrefix(tickets[t].history, tickets'[t].history) ]_vars

C5_Witness ==
    \E th \in DOMAIN checkpoints :
        LET history == checkpoints[th].values["history"] IN
        /\ ran[th]["process_human"] = 1
        /\ Len(history) = 7
        /\ history[6] = "Consulta escalada a agente humano."
        /\ history[7] = "Respuesta proporcionada por agente humano."

NeitherToken(response) ==
    /\ ~Contains(Lower(response), "automatic")
    /\ ~Contains(Lower(response), "escalated")

\* C6: when the classifier output holds neither 'automatic' nor 'escalated'
\* (case-insensitive) the category is 'automatic' if confidence >= 0.6 and
\* 'escalated' otherwise; a missing confidence counts as 0.
C6_FallbackThreshold ==
    ( /\ call.fn = "classify_with_context"
      /\ call.done
      /\ NeitherToken(call.response) )
    => LET confidence == IF "confidence" \in DOMAIN call.state
                         THEN call.state["confidence"] ELSE 0
       IN  call.result["category"] =
               IF confidence >= 600 THEN "automatic" ELSE "escalated"

C6_Witness ==
    /\ call.fn = "classify_with_context"
    /\ call.done
    /\ NeitherToken(call.response)
    /\ "confidence" \in DOMAIN call.state
    /\ call.state["confidence"] = 600
    /\ call.result["category"] = "automatic"

\* the state left by a retrieval that returned no fragment
ZeroFragments(values) ==
    /\ values["rag_answer"] =
           "No se encontro informacion relevante en la base de conocimiento."
    /\ values["rag_context"] = ""
    /\ values["sources"] = <<>>

\* C7: when retrieval returns zero fragments the ticket finishes create
\* with confidence 0.0, category 'escalated' and requires_human true,
\* whatever the classifier answered.
C7_NoEvidenceEscalates ==
    ( /\ op.kind = "create"
      /\ StreamOver
      /\ ZeroFragments(checkpoints[Thread].values) )
    => LET values == checkpoints[Thread].values IN
       /\ values["confidence"] = 0
       /\ values["category"] = "escalated"
       /\ values["requires_human"] = TRUE

\* C8: retrieval and classification run at most once in a ticket's life; a
\* resume runs only process_human and leaves query, rag_answer, confidence,
\* sources, rag_context and category as they were.
C8_ResumeDoesNotReplay ==
    /\ \A th \in ThreadIds : ran[th]["rag"] <= 1 /\ ran[th]["classify"] <= 1
    /\ op.kind = "resume" =>
          /\ ran[Thread]["rag"] = 1
          /\ ran[Thread]["classify"] = 1
          /\ ran[Thread]["escalation"] = 1
          /\ ran[Thread]["final_answer"] = 0
          /\ \A k \in FrozenKeys :
                 checkpoints[Thread].values[k] = op.before.values[k]

C8_Witness ==
    /\ op.kind = "resume"
    /\ StreamOver
    /\ ran[Thread]["process_human"] = 1
    /\ checkpoints[Thread].values["history"] /= op.before.values["history"]

C10_AutomaticNeverWaits ==
    \A th \in DOMAIN checkpoints :
        LET cp == checkpoints[th] IN
        cp.values["category"] = "automatic"
            => /\ ran[th]["escalation"] = 0
               /\ ran[th]["process_human"] = 0
               /\ cp.values["requires_human"] = FALSE
               /\ \/ cp.next = { "final_answer" } /\ cp.as_node = "classify"
                  \/ /\ cp.next = {}
                     /\ cp.as_node = "final_answer"
                     /\ cp.values["final_answer"] /= None
               /\ (op.kind = "idle" => cp.next = {})

C10_Witness ==
    \E th \in DOMAIN checkpoints :
        /\ checkpoints[th].values["category"] = "automatic"
        /\ checkpoints[th].next = {}
        /\ checkpoints[th].values["final_answer"] /= None
        /\ op.kind = "idle"

\* C13: when the evidence store, the generation call or the classification
\* call raises during create, the request ends in the error outcome: the
\* handler stores no ticket, and every ticket of the ledger belongs to a
\* thread whose retrieval and classification both completed.
C13_FailedCreateStoresNoTicket ==
    /\ [](/\ (op.kind = "create" /\ op.error
                 => op.ticket_id \notin DOMAIN tickets)
          /\ \A t \in DOMAIN tickets :
                LET cp == checkpoints[tickets[t].config.thread_id] IN
                /\ cp.next \cap { "rag", "classify" } = {}
                /\ cp.values["rag_answer"] /= None
                /\ cp.values["category"] /= None)
    /\ [][(op.kind = "create" /\ op.error) => tickets' = tickets]_vars

C13_Witness ==
    \E th \in DOMAIN checkpoints :
        /\ checkpoints[th].next \in { { "rag" }, { "classify" } }
        /\ op.kind = "idle"
        /\ th \notin DOMAIN tickets
        /\ tickets /= << >>

\* C17: category is unset on every thread until its classification step has
\* run, the classification step runs at most once per thread (exactly once
\* for every ticket of the ledger), its value is 'automatic' or 'escalated'
\* whatever the classifier answered, and once set no step changes it.
C17_CategoryWrittenOnceByClassify ==
    /\ [](\A th \in DOMAIN checkpoints :
             LET category == checkpoints[th].values["category"] IN
             /\ ran[th]["classify"] <= 1
             /\ (ran[th]["classify"] = 0 => category = None)
             /\ (ran[th]["classify"] = 1
                    => category \in { "automatic", "escalated" })
          /\ \A t \in DOMAIN tickets :
                ran[tickets[t].config.thread_id]["classify"] = 1)
    /\ [][\A th \in DOMAIN checkpoints :
             checkpoints[th].values["category"] /= None
                => checkpoints'[th].values["category"]
                       = checkpoints[th].values["category"]]_vars

C17_Witness ==
    \E th \in DOMAIN checkpoints :
        /\ ran[th]["classify"] = 1
        /\ ran[th]["process_human"] = 1
        /\ checkpoints[th].values["category"] = "escalated"
        /\ checkpoints[th].values["final_answer"] /= None

\* C15: every step of a create or a resume on one ticket leaves unchanged
\* the ledger entry (result, history, config) of every other ticket, the
\* checkpoint of every other ticket's thread, and the checkpoint of every
\* thread other than the one the handler runs on.
C15_OtherTicketsUntouched ==
    [][(op.kind /= "idle" \/ op'.kind /= "idle")
        => LET h == IF op.kind /= "idle" THEN op ELSE op' IN
           /\ \A u \in DOMAIN tickets \ { h.ticket_id } :
                 /\ u \in DOMAIN tickets'
                 /\ tickets'[u] = tickets[u]
                 /\ checkpoints'[tickets[u].config.thread_id]
                        = checkpoints[tickets[u].config.thread_id]
           /\ \A th \in DOMAIN checkpoints \ { h.config.thread_id } :
                 /\ th \in DOMAIN checkpoints'
                 /\ checkpoints'[th] = checkpoints[th]]_vars

C15_Witness ==
    /\ { "TK-1", "TK-2" } \subseteq DOMAIN tickets
    /\ AwaitingHuman(checkpoints["TK-1"])
    /\ ran["TK-1"]["process_human"] = 0
    /\ ran["TK-2"]["process_human"] = 1
    /\ "final_answer" \in DOMAIN tickets["TK-2"].result
    /\ "final_answer" \notin DOMAIN tickets["TK-1"].result

\* C16: every create terminates; a create that raised nothing leaves its
\* thread either finished with final_answer set or suspended before
\* process_human with no answer, and stores in the ledger, under a ticket_id
\* that no existing ticket has, a snapshot that agrees with the checkpointed
\* state on every field (fields that are None are left out of the snapshot).
C16_CreateEndsFinalizedOrAwaiting ==
    /\ (op.kind = "create") ~> (op.kind = "idle")
    /\ [][(op.kind = "create" /\ ~op.error /\ op'.kind = "idle")
            => LET cp == checkpoints[op.config.thread_id] IN
               /\ \/ cp.next = {} /\ cp.values["final_answer"] /= None
                  \/ AwaitingHuman(cp)
               /\ checkpoints' = checkpoints
               /\ op.ticket_id \notin DOMAIN tickets
               /\ DOMAIN tickets' = DOMAIN tickets \cup { op.ticket_id }
               /\ \A u \in DOMAIN tickets : tickets'[u] = tickets[u]
               /\ tickets'[op.ticket_id].config = op.config
               /\ \A k \in StateKeys :
                     Get(tickets'[op.ticket_id].result, k, None)
                         = cp.values[k]]_vars

C16_Witness ==
    /\ { "TK-1", "TK-2" } \subseteq DOMAIN tickets
    /\ op.kind = "idle"
    /\ AwaitingHuman(checkpoints["TK-1"])
    /\ checkpoints["TK-2"].next = {}
    /\ checkpoints["TK-2"].values["category"] = "automatic"
    /\ tickets["TK-2"].result["final_answer"]
           = checkpoints["TK-2"].values["final_answer"]

\* C11: a ticket suspended before process_human keeps its checkpoint through
\* every step that is not a resume of its own thread, the end of the process
\* (which empties the ledger) included; and a resume with a non-empty human
\* answer h issued against that thread right after the restart ends with
\* nothing pending, final_answer = h, and query, rag_answer, confidence,
\* sources, rag_context, category and the earlier history entries as the
\* restart left them.
C11_SuspendedTicketSurvivesRestart ==
    /\ [][\A th \in DOMAIN checkpoints :
             (/\ AwaitingHuman(checkpoints[th])
              /\ ~(op.kind = "resume" /\ op.config.thread_id = th)
              /\ ~(op'.kind = "resume" /\ op'.config.thread_id = th))
                => /\ th \in DOMAIN checkpoints'
                   /\ checkpoints'[th] = checkpoints[th]]_vars
    /\ []((/\ op.kind = "resume"
           /\ op.ticket_id = None
           /\ op.restarted
           /\ AwaitingHuman(op.before)
           /\ Truthy(op.human_answer)
           /\ StreamOver)
             => LET cp == checkpoints[Thread] IN
                /\ ~op.error
                /\ cp.next = {}
                /\ cp.values["final_answer"] = op.human_answer
                /\ \A k \in FrozenKeys : cp.values[k] = op.before.values[k]
                /\ IsPrefix(op.before.values["history"], cp.values["history"]))

C11_Witness ==
    /\ op.kind = "resume"
    /\ op.ticket_id = None
    /\ op.restarted
    /\ AwaitingHuman(op.before)
    /\ StreamOver
    /\ tickets = << >>
    /\ ran[Thread]["process_human"] = 1
    /\ checkpoints[Thread].values["final_answer"] = "Refund issued."
    /\ checkpoints[Thread].values["category"] = "escalated"

\* C12: a resume on a ticket_id for which no ticket was ever created fails at
\* once, and neither a checkpoint nor a ledger entry exists for that
\* identifier afterwards.
C12_UnknownTicketResumeFails ==
    \A t \in UnknownTicketIds :
        /\ t \notin DOMAIN tickets
        /\ Config(t).thread_id \notin DOMAIN checkpoints
        /\ (op.kind = "resume" /\ op.config = Config(t) => op.error)

\* C14: two resume calls on the same ticket never interleave: neither
\* begins (update_state) while the other has begun and its stream has not
\* yet ended, and what a caller reads back is the outcome of its own answer.
C14_ResumesDoNotInterleave ==
    /\ [][/\ ((/\ call = NoCall
                /\ SecondStreaming'
                /\ op.kind = "resume"
                /\ op.config = call'.config) => StreamOver)
           /\ ((/\ op.kind = "idle"
                /\ op'.kind = "resume"
                /\ SecondStreaming
                /\ call.config = op'.config) => SecondStreamOver)]_vars
    /\ []((/\ call.fn = "resume_with_human_answer"
           /\ call.pc = "done"
           /\ "final_answer" \in DOMAIN call.result)
             => call.result["final_answer"] = call.human_answer)

-----------------------------------------------------------------------------
(* Properties of compute_confidence *)

Returned == call.fn = "compute_confidence" /\ call.done

\* the answer text contains a configured negative phrase, compared as the
\* code compares it: on the lowered answer
ContainsNegativePhrase(answer) ==
    /\ answer /= None
    /\ \E i \in 1..Len(RAG_NEGATIVE_PHRASES) :
          Contains(Lower(answer), RAG_NEGATIVE_PHRASES[i])

\* C18: for every input, with distances that are zero, very large or
\* negative, compute_confidence returns a value c with 0.0 <= c <= 1.0, and
\* every confidence held in a checkpoint or a ledger entry is in that range.
C18_ConfidenceInUnitInterval ==
    /\ Returned => /\ ~call.raised
                   /\ call.result >= 0
                   /\ call.result <= ONE
    /\ \A th \in DOMAIN checkpoints :
          /\ checkpoints[th].values["confidence"] >= 0
          /\ checkpoints[th].values["confidence"] <= ONE

\* C19 as stated: whenever the answer text contains a configured negative
\* phrase, compute_confidence returns 0.2, whatever F and S are.
C19_NegativePhraseAlwaysLow ==
    Returned /\ ContainsNegativePhrase(call.rag_answer)
        => ~call.raised /\ call.result = 200

\* C19 amended: whenever the answer text contains a configured negative
\* phrase and at least one fragment was retrieved, compute_confidence
\* returns 0.2 whatever else F and S hold; with no fragment it returns 0.0.
C19_NegativePhraseLowGivenFragments ==
    Returned /\ ContainsNegativePhrase(call.rag_answer)
        => /\ ~call.raised
           /\ call.result = IF call.docs = <<>> THEN 0 ELSE 200

C19_Witness ==
    /\ Returned
    /\ call.rag_answer = "Desconozco la respuesta"
    /\ Len(call.docs) = 5
    /\ call.scored_docs = << << DocFaq, -1000 >> >>
    /\ call.result = 200

\* C20 as stated: when fragments were retrieved but the answer is null or
\* empty, compute_confidence returns a floor between 0.1 and 0.2, not 0.0.
C20_EmptyAnswerGetsFloor ==
    Returned /\ call.docs /= <<>> /\ ~Truthy(call.rag_answer)
        => /\ ~call.raised
           /\ call.result >= 100
           /\ call.result <= 200

\* C20 amended: when fragments were retrieved but the answer is null or
\* empty, compute_confidence returns 0.0, the value it also returns when no
\* fragment was retrieved.
C20_EmptyAnswerGetsZero ==
    Returned /\ ~Truthy(call.rag_answer)
        => ~call.raised /\ call.result = 0

C20_Witness ==
    /\ Returned
    /\ call.rag_answer = ""
    /\ Len(call.docs) = 3
    /\ call.scored_docs = << << DocFaq, 0 >> >>
    /\ call.result = 0

\* C21: with no fragments, compute_confidence returns 0.0 for every query,
\* every answer (answers holding a negative phrase included) and every
\* scored list, the one with a distance of -1.0 included.
C21_NoFragmentsGivesZero ==
    Returned /\ call.docs = <<>> => ~call.raised /\ call.result = 0

C21_Witness ==
    /\ Returned
    /\ call.docs = <<>>
    /\ call.rag_answer = "Reinicie el servicio"
    /\ call.scored_docs = << << DocFaq, 250 >>, << DocFaq, 1000 >> >>
    /\ call.result = 0

-----------------------------------------------------------------------------
(* Properties of retrieval and generation inside a ticket *)

\* the answer query_rag gives when documents came back but format_context
\* found no useful content in them
EMPTY_CONTENT_MESSAGE ==
    "Se encontraron documentos, pero no contienen informacion util."

\* C22: a retrieval whose fragments are all empty after trimming gets an
\* intermediate confidence, strictly above the 0.0 of a retrieval that found
\* nothing.
C22_EmptyContentAboveZero ==
    \A th \in DOMAIN checkpoints :
        checkpoints[th].values["rag_answer"] = EMPTY_CONTENT_MESSAGE
            => checkpoints[th].values["confidence"] > 0

\* C23 as stated: for five fragments, mean similarity 0.9, an answer of 80
\* words without negative phrase that holds every query term, the score is
\* >= 0.9, the category is 'automatic' and final_answer is the answer with
\* the source list appended.
C23_SupportedIsAutomatic ==
    \A th \in DOMAIN checkpoints :
        LET v == checkpoints[th].values IN
        v["rag_answer"] = LongAnswer
            => /\ v["confidence"] >= 900
               /\ (ran[th]["classify"] = 1 => v["category"] = "automatic")
               /\ (checkpoints[th].next = {} /\ ran[th]["classify"] = 1
                      => v["final_answer"] =
                            LongAnswer \o "\n\nFuentes consultadas: faq.pdf, manual.pdf, guia.pdf")

\* C23 amended: for such a retrieval the score is >= 0.9 (it is clamped to
\* 1.0); the category is 'automatic' unless the classifier's reply, which
\* the fifth history entry records, names 'escalated' and not 'automatic',
\* in which case it is 'escalated'; and when the category is 'automatic',
\* final_answer is the answer with the source list appended.
C23_SupportedFollowsClassifier ==
    \A th \in DOMAIN checkpoints :
        LET v == checkpoints[th].values
            reply == Lower(v["history"][5])
        IN
        v["rag_answer"] = LongAnswer
            => /\ v["confidence"] = ONE
               /\ (ran[th]["classify"] = 1
                      => v["category"] =
                            IF Contains(reply, "escalated") /\ ~Contains(reply, "automatic")
                            THEN "escalated" ELSE "automatic")
               /\ (ran[th]["final_answer"] = 1
                      => /\ v["category"] = "automatic"
                         /\ v["final_answer"] =
                               LongAnswer
                                 \o "\n\nFuentes consultadas: "
                                 \o "faq.pdf, manual.pdf, guia.pdf")

C23_Witness ==
    \E th \in DOMAIN tickets :
        /\ checkpoints[th].values["rag_answer"] = LongAnswer
        /\ Len(Split(LongAnswer)) = 80
        /\ checkpoints[th].values["category"] = "automatic"
        /\ ran[th]["final_answer"] = 1
        /\ checkpoints[th].next = {}
        /\ tickets[th].result["final_answer"] =
              LongAnswer \o "\n\nFuentes consultadas: faq.pdf, manual.pdf, guia.pdf"

-----------------------------------------------------------------------------
(* Properties of classify_with_context as a single call *)

\* C29: classification by token: the category is 'automatic' whenever the
\* lower-cased classifier output contains 'automatic' (inside a longer word
\* too, and also when 'escalated' occurs as well); a token makes it
\* 'escalated' only when the output contains 'escalated' and not
\* 'automatic'; in both cases the category is the same for every confidence,
\* present or absent.
C29_TokenDecidesCategory ==
    call.fn = "classify_with_context" /\ call.done =>
        LET content  == Lower(call.response)
            category == call.result["category"]
        IN  /\ Contains(content, "automatic") => category = "automatic"
            /\ Contains(content, "automatic") \/ Contains(content, "escalated")
                  => ( category = "escalated"
                          <=> /\ Contains(content, "escalated")
                              /\ ~Contains(content, "automatic") )
            /\ Contains(content, "automatic") \/ Contains(content, "escalated")
                  => \A st \in ClassifyStates :
                        classify_with_context(st, call.response)["category"] = category

C29_Witness ==
    /\ call.fn = "classify_with_context" /\ call.done
    /\ call.response = "Automatically ESCALATED"
    /\ "confidence" \in DOMAIN call.state
    /\ call.state["confidence"] = 200
    /\ call.result["category"] = "automatic"

-----------------------------------------------------------------------------
(* Properties of generate_final_answer as a single call *)

-----------------------------------------------------------------------------
(* Properties of the order of the steps *)

\* the threads of the tickets created so far
TicketThreads == { Config(t).thread_id : t \in TicketIds } \cap DOMAIN checkpoints

\* each step runs at most once, after the steps that lead to it, and the
\* two branches exclude each other; once the stream of a classified ticket
\* is over, one branch has been taken
StepsInOrder(th) ==
    LET n == ran[th]
        streaming == op.kind \in { "create", "resume" } /\ Thread = th /\ ~op.error
    IN  /\ \A node \in Nodes : n[node] <= 1
        /\ n["classify"] = 1 => n["rag"] = 1
        /\ n["final_answer"] = 1 => n["classify"] = 1 /\ n["escalation"] = 0
        /\ n["escalation"] = 1 => n["classify"] = 1 /\ n["final_answer"] = 0
        /\ n["process_human"] = 1 => n["escalation"] = 1
        /\ n["classify"] = 1 /\ ~streaming
              => n["final_answer"] + n["escalation"] = 1

\* the history is the entries of rag, then of classify, then of the branch
\* taken, then of the resume
HistoryInOrder(th) ==
    LET n == ran[th]
        history == checkpoints[th].values["history"]
    IN  /\ Len(history) = 3 * n["rag"] + 2 * n["classify"] + n["escalation"]
                            + n["final_answer"] + n["process_human"]
        /\ n["rag"] = 1 => history[1] = "RAG ejecutado con MultiQuery + MMR"
        /\ n["classify"] = 1
              => SubSeq(history[4], 1, 25) = "Clasificacion realizada: "
        /\ n["escalation"] = 1 => history[6] = "Consulta escalada a agente humano."
        /\ n["final_answer"] = 1
              => history[6] = "Respuesta final generada automaticamente."
        /\ n["process_human"] = 1
              => history[7] \in { "Respuesta proporcionada por agente humano.",
                                  "Esperando respuesta del agente humano." }

-----------------------------------------------------------------------------
(* Properties of the retriever as a single call *)

\* C24: the sequence returned by the retriever has at most SEARCH_K
\* fragments, in hybrid and in non-hybrid mode.
C24_AtMostSearchK ==
    call.fn = "retrieve" /\ call.done => Len(call.result) <= SEARCH_K

\* C25: the sequence returned by the retriever never holds two fragments
\* with the same content-derived identifier, and the union over the
\* reformulations holds every fragment found, once, in the order of their
\* first occurrence in the searches' results, the searches taken in the
\* order of the reformulations.
C25_NoDuplicateFirstSeenOrder ==
    call.fn = "retrieve" /\ call.done =>
        LET all == Concat(call.per_query)
            FirstSeen(doc) ==
                CHOOSE i \in 1..Len(all) :
                    all[i] = doc /\ \A j \in 1..(i - 1) : all[j] /= doc
        IN
        /\ \A i, j \in 1..Len(call.result) :
              i /= j => FragmentId(call.result[i]) /= FragmentId(call.result[j])
        /\ \A i, j \in 1..Len(call.union) :
              i /= j => FragmentId(call.union[i]) /= FragmentId(call.union[j])
        /\ { call.union[i] : i \in 1..Len(call.union) }
              = { all[i] : i \in 1..Len(all) }
        /\ \A i, j \in 1..Len(call.union) :
              i < j => FirstSeen(call.union[i]) < FirstSeen(call.union[j])
        /\ ~call.hybrid => call.result = call.union

C25_Witness ==
    /\ call.fn = "retrieve" /\ call.done
    /\ ~call.hybrid
    /\ call.per_query = << Frags(<< 6, 2 >>), Frags(<< 3, 1, 6, 7, 8 >>),
                           Frags(<< 1, 2, 3, 4, 5 >>) >>
    /\ call.result = Frags(<< 6, 2, 3, 1, 7, 8, 4, 5 >>)

-----------------------------------------------------------------------------
(* Properties of create_vectorstore *)

\* C26: when create_vectorstore is called a second time, after the first
\* call has returned, with the same fragments, every fragment's id is
\* indexed (once: the collection holds one entry per id), the second call
\* inserts nothing and the store is as the second call found it.
C26_SecondCallInsertsNothing ==
    call.fn = "create_vectorstore" =>
        \A c, d \in Callers :
            /\ c \in call.caller[d].after
            /\ call.caller[c].docs = call.caller[d].docs
            /\ Finished(d)
            => /\ call.caller[d].inserted = 0
               /\ call.store = call.caller[d].found
               /\ \A i \in 1..Len(call.caller[d].docs) :
                     FragmentId(call.caller[d].docs[i]) \in DOMAIN call.store

\* C27: when two calls run at the same time on overlapping fragments, no id
\* is submitted for insertion by both.
C27_NoIdSubmittedByBoth ==
    call.fn = "create_vectorstore" =>
        \A c, d \in Callers :
            c /= d =>
                { call.caller[c].new_ids[i] : i \in 1..Len(call.caller[c].new_ids) }
                  \cap
                { call.caller[d].new_ids[i] : i \in 1..Len(call.caller[d].new_ids) }
                  = {}

-----------------------------------------------------------------------------
(* Properties of the ledger *)

\* C31: no ticket is stuck: whenever no handler is running, every ticket in
\* the ledger has a non-empty final_answer or is still resumable, i.e.
\* process_human is pending in its machine and its ledger snapshot shows
\* requires_human.
C31_NoStuckTicket ==
    op.kind = "idle" =>
        \A t \in DOMAIN tickets :
            \/ Truthy(Get(tickets[t].result, "final_answer", None))
            \/ /\ AwaitingHuman(checkpoints[tickets[t].config.thread_id])
               /\ ShowsHumanPanel(tickets[t].result)

\* C32: if a resume fails with an exception, the ledger entry of the ticket
\* (result snapshot, history and config) is left exactly as it was before
\* the resume, so that the ticket still shows as awaiting a human.
C32_FailedResumeLeavesLedger ==
    [][ op.kind = "resume" /\ op.error /\ op' = Idle
          => /\ tickets' = tickets
             /\ ShowsHumanPanel(tickets'[op.ticket_id].result) ]_vars

\* C33: whenever a ticket is at rest (suspended before process_human or at
\* the end), requires_human is true exactly if category is 'escalated', in
\* its checkpoint and in its ledger snapshot; the requires_human flag of the
\* empty-evidence RAG response does not reach a ticket classified
\* 'automatic'.
C33_RequiresHumanIffEscalated ==
    /\ \A th \in TicketThreads :
          LET cp == checkpoints[th] IN
          cp.next = {} \/ AwaitingHuman(cp)
              => ( cp.values["requires_human"] = TRUE
                      <=> cp.values["category"] = "escalated" )
    /\ \A t \in DOMAIN tickets :
          Get(tickets[t].result, "requires_human", FALSE) = TRUE
              <=> Get(tickets[t].result, "category", None) = "escalated"

C33_Witness ==
    \E t \in DOMAIN tickets :
        /\ tickets[t].result["rag_answer"] =
              "No se encontro informacion relevante en la base de conocimiento."
        /\ tickets[t].result["category"] = "automatic"
        /\ tickets[t].result["requires_human"] = FALSE
        /\ checkpoints[t].next = {}
        /\ \E u \in DOMAIN tickets :
              /\ tickets[u].result["category"] = "escalated"
              /\ tickets[u].result["requires_human"] = TRUE
              /\ AwaitingHuman(checkpoints[u])

\* C34: for every finalized ticket (machine at its end, final_answer
\* written) final_answer is determined by the branch: with category
\* 'escalated' it equals the state's human_answer, which is the text the
\* agent sent or, after "Usar RAG", the bare RAG answer; with category
\* 'automatic' it equals rag_answer followed by the source suffix, and
\* human_answer is null.
C34_FinalAnswerByBranch ==
    \A th \in TicketThreads :
        LET v == checkpoints[th].values IN
        checkpoints[th].next = {} /\ v["final_answer"] /= None
            => /\ v["category"] \in { "escalated", "automatic" }
               /\ v["category"] = "escalated"
                     => /\ v["final_answer"] = v["human_answer"]
                        /\ Truthy(v["human_answer"])
                        /\ \/ v["human_answer"] \in HumanReplies
                           \/ v["human_answer"] = v["rag_answer"]
               /\ v["category"] = "automatic"
                     => /\ v["human_answer"] = None
                        /\ v["final_answer"] =
                              IF v["sources"] = <<>>
                              THEN v["rag_answer"]
                              ELSE v["rag_answer"] \o "\n\nFuentes consultadas: "
                                                   \o Join(", ", v["sources"])

C34_Witness ==
    \E t \in DOMAIN tickets :
        /\ op.kind = "idle"
        /\ checkpoints[t].next = {}
        /\ tickets[t].result["category"] = "escalated"
        /\ tickets[t].result["sources"] = << "faq.pdf", "manual.pdf" >>
        /\ tickets[t].result["human_answer"] = "Reinicie el servicio tras el Error 500"
        /\ tickets[t].result["final_answer"] = "Reinicie el servicio tras el Error 500"

\* C35: after every successful create and every successful resume, and
\* until the next resume of the ticket starts, the history in the ticket's
\* ledger entry equals the history field of its checkpointed state (same
\* entries, same order) and the ledger's result snapshot equals the
\* checkpointed state with its null fields dropped.
C35_LedgerMirrorsCheckpoint ==
    \A t \in DOMAIN tickets :
        op.kind = "idle" \/ op.ticket_id /= t
            => LET v == checkpoints[tickets[t].config.thread_id].values
                   kept == { k \in DOMAIN v : ~(k \in OptionalKeys /\ v[k] = None) }
               IN  /\ tickets[t].history = v["history"]
                   /\ tickets[t].result = [ k \in kept |-> v[k] ]

C35_Witness ==
    \E t \in DOMAIN tickets :
        /\ op.kind = "idle"
        /\ ran[t]["process_human"] = 1
        /\ Len(tickets[t].history) = 7
        /\ tickets[t].history = checkpoints[t].values["history"]
        /\ Get(tickets[t].result, "final_answer", None) = "Refund issued."
        /\ "rag_context" \in DOMAIN tickets[t].result
        /\ \E u \in DOMAIN tickets :
              /\ "final_answer" \notin DOMAIN tickets[u].result
              /\ Len(tickets[u].history) = 6

\* C36: within one create_vectorstore call the ids submitted to the store
\* are pairwise distinct, also when the input list holds two fragments with
\* the same content and metadata.
C36_SubmittedIdsDistinct ==
    call.fn = "create_vectorstore" =>
        \A c \in Callers :
            LET new_ids == call.caller[c].new_ids IN
            \A i, j \in 1..Len(new_ids) : i /= j => new_ids[i] /= new_ids[j]

====
